---- MODULE Spec2Model ----
(***************************************************************************)
(* A model of cursor-git-tracker.py: the CursorChangeHandler that records  *)
(* modified files, commits them behind a cooldown and rotates backup       *)
(* branches.  One action models one delivery of a watchdog event to        *)
(* on_modified, with everything that call does; the environment advances   *)
(* the clock and may end daylight-saving time.  The git operations are the *)
(* GitPython calls of the source; each can raise where the source catches. *)
(***************************************************************************)
EXTENDS Integers, Sequences, FiniteSets, TLC

\* ------------------------------------------------------------------ bounds
\* The clock is advanced at most MaxTicks times.
MaxTicks == 3

\* At most MaxFaults git operations raise for reasons of the environment.
MaxFaults == 2

\* _cleanup_backup_branches is called on its own at most MaxCleanups times.
MaxCleanups == 2

\* At most MaxQueue events wait in the observer's queue.
MaxQueue == 1

\* The amounts (seconds) by which the environment advances time.time().
TickSteps == {1200, 3600}

\* The amounts (seconds) by which local time falls back when summer time ends.
DstShifts == {3600}

\* The local seconds in the names of the backup branches, and the commit
\* times, of the repositories _cleanup_backup_branches is given on its own.
CleanupStamps == {1200, 2400, 3600, 4800}
CleanupTimes == {0, 1200, 2400}

\* ------------------------------------------------------- Config (l. 25-116)
DEFAULT_CONFIG ==
  [ file_patterns |->
      << "**/*.py", "**/*.js", "**/*.jsx", "**/*.ts", "**/*.tsx", "**/*.java",
         "**/*.cpp", "**/*.c", "**/*.h", "**/*.cs", "**/*.go", "**/*.rb",
         "**/*.php", "**/*.swift", "**/*.kt",
         "**/*.html", "**/*.css", "**/*.scss", "**/*.sass", "**/*.less",
         "**/*.vue", "**/*.svelte",
         "**/*.json", "**/*.yml", "**/*.yaml", "**/*.xml", "**/*.md",
         "**/*.markdown", "**/README*", "**/LICENSE*", "**/*.config.*" >>,
    ignore_patterns |->
      << "**/.git/**", "**/.svn/**", "**/.hg/**",
         "**/node_modules/**", "**/venv/**", "**/.virtualenv/**",
         "**/vendor/**", "**/.bundle/**",
         "**/build/**", "**/dist/**", "**/out/**", "**/target/**",
         "**/bin/**", "**/obj/**",
         "**/__pycache__/**", "**/.cache/**", "**/.temp/**", "**/.tmp/**",
         "**/.idea/**", "**/.vscode/**", "**/.vs/**",
         "**/logs/**", "**/*.log", "**/debug/**",
         "**/.DS_Store", "**/Thumbs.db", "**/*.swp", "**/*.swo" >>,
    backup_branch_prefix |-> "cursor-backup",
    max_backup_branches |-> 5,
    commit_cooldown |-> 5,
    create_backup_branches |-> TRUE ]

\* The user configurations (config.json) the model draws from: each overrides
\* keys of the default; the patterns are left at their defaults.
UserConfigs ==
  { [max_backup_branches |-> 2, commit_cooldown |-> 2400,
     create_backup_branches |-> b] : b \in BOOLEAN }

\* {**Config.DEFAULT_CONFIG, **user_config}: user keys override default keys.
load_config(user_config) ==
  [k \in DOMAIN DEFAULT_CONFIG |->
     IF k \in DOMAIN user_config THEN user_config[k] ELSE DEFAULT_CONFIG[k]]

\* The hard-coded backup interval of _try_commit ("every hour").
backup_interval == 3600

\* ------------------------------------------------------------ the watched tree
repo_path == "/repo"

\* The events the watcher delivers: modifications below repo_path.
EventInputs ==
  { [src_path |-> p, is_directory |-> FALSE] :
      p \in { "/repo/build/output.js", "/repo/src/a.py",
              "/repo/src/build/o.js", "/repo/notes.txt" } }
  \cup { [src_path |-> "/repo/lib/chart.js", is_directory |-> TRUE] }

\* ------------------------------------------------------------------- state
VARIABLES
  now,               \* time.time(), seconds since the handler was constructed
  ticks,             \* how often the clock was advanced
  faults,            \* how many git operations raised for reasons of the environment
  utc_offset,        \* local time minus time.time(): datetime.now() = now + utc_offset
  config,            \* self.config
  last_commit_time,  \* self.last_commit_time
  last_backup_time,  \* self.last_backup_time
  pending_changes,   \* self.pending_changes
  index,             \* self.repo.index: the staged paths not yet committed
  heads,             \* self.repo.heads: branch name -> the commit it points to
  active_branch,     \* self.repo.active_branch (HEAD)
  last_commit,       \* the commit index.commit made last: its file list and content
  event,             \* the event on_modified handled last, where events are kept
  recorded,          \* history: the paths inserted and not listed in a successful commit since
  attempts,          \* history: the last two calls of _create_commit, [time, ok]
  rotation,          \* history: the last call of _create_backup_branch
  created,           \* history: the backup branches created, in order, each with its commit
  rotations_clean,   \* history: every rotation so far made its branch and raised nothing
  cleanups,          \* history: the calls of _cleanup_backup_branches made on their own
  observer,          \* the Observer of main: "running" until observer.stop()
  event_queue,       \* the events the emitter has queued for dispatch
  dispatching        \* per dispatching thread, the event whose on_modified call runs

vars == << now, ticks, faults, utc_offset, config, last_commit_time, last_backup_time,
           pending_changes, index, heads, active_branch, last_commit,
           event, recorded, attempts, rotation, created, rotations_clean,
           cleanups, observer, event_queue, dispatching >>

watcher == << observer, event_queue, dispatching >>
handler == << last_commit_time, last_backup_time, pending_changes >>
repo == << index, heads, active_branch, last_commit >>
history == << recorded, attempts, rotation, created, rotations_clean,
             cleanups >>

\* ------------------------------------------------------ fnmatch.fnmatch
\* fnmatch.fnmatch(name, pat) on POSIX: '*' matches any run of characters,
\* '/' included, '?' any one character, every other character itself, and the
\* whole name must match.
RECURSIVE fnmatch(_, _)
fnmatch(name, pat) ==
  IF pat = "" THEN name = ""
  ELSE IF Head(pat) = "*"
         THEN fnmatch(name, Tail(pat)) \/ (name # "" /\ fnmatch(Tail(name), pat))
  ELSE IF Head(pat) = "?"
         THEN name # "" /\ fnmatch(Tail(name), Tail(pat))
  ELSE name # "" /\ Head(name) = Head(pat) /\ fnmatch(Tail(name), Tail(pat))

\* os.path.relpath(file_path, start) for a path below start.
relpath(file_path, start) ==
  IF Len(file_path) > Len(start) + 1
     /\ SubSeq(file_path, 1, Len(start) + 1) = start \o "/"
    THEN SubSeq(file_path, Len(start) + 2, Len(file_path))
    ELSE file_path

\* any(fnmatch.fnmatch(relative_path, pattern) for pattern in patterns)
matches_any(relative_path, patterns) ==
  \E i \in 1..Len(patterns) : fnmatch(relative_path, patterns[i])

\* A variant of should_track_file: the file patterns are consulted first.
should_track_file_patterns_first(file_path, cfg) ==
  LET relative_path == relpath(file_path, repo_path) IN
    IF matches_any(relative_path, cfg.file_patterns) THEN TRUE
    ELSE IF matches_any(relative_path, cfg.ignore_patterns) THEN FALSE
    ELSE FALSE

\* ------------------------------------------- CursorChangeHandler.should_track_file
should_track_file(file_path, cfg) ==
  LET relative_path == relpath(file_path, repo_path) IN
    IF matches_any(relative_path, cfg.ignore_patterns) THEN FALSE
    ELSE IF matches_any(relative_path, cfg.file_patterns) THEN TRUE
    ELSE FALSE

\* should_track_file for every configuration and path of the model, computed
\* once: on_modified reads its answer here.
Configs == {load_config(u) : u \in UserConfigs}

tracks ==
  [cfg \in Configs |->
     [p \in {e.src_path : e \in EventInputs} |-> should_track_file(p, cfg)]]

\* ------------------------------------------------------------ the repository
\* A branch name.  A backup branch is named f"{prefix}-{timestamp}" with the
\* timestamp datetime.now().strftime("%Y%m%d_%H%M%S"): fixed-width fields, so
\* two names are equal, and ordered, as their local seconds are.
branch(prefix, stamp) == [prefix |-> prefix, stamp |-> stamp]

main_branch == branch("main", 0)

\* A commit object, as far as the handler reads it.  The commits of one
\* repository differ in their committed_datetime here, so it identifies them.
commit_at(t) == [committed_datetime |-> t]

\* The repository as the operations below take and return it.
Repo == [index |-> index, heads |-> heads, active_branch |-> active_branch,
         last_commit |-> last_commit]

\* datetime.now(): the local time.
local_time(t, offset) == t + offset

\* self.repo.head.commit
tip(r) == r.heads[r.active_branch]

Range(s) == {s[i] : i \in 1..Len(s)}

\* A variant of Orderings: the iteration misses one element of a set of
\* several.
Orderings_missing_one(S) ==
  IF Cardinality(S) < 2 THEN {s \in [1..Cardinality(S) -> S] : Range(s) = S}
  ELSE {s \in [1..(Cardinality(S) - 1) -> S] :
          Cardinality(Range(s)) = Cardinality(S) - 1}

\* The orders in which iterating a Python set can present its elements.
Orderings(S) ==
  {s \in [1..Cardinality(S) -> S] : Range(s) = S}

\* What can happen inside _create_commit: nothing raises; index.add raises
\* after the paths of `staged` were added; index.commit raises.
CommitOutcomes(pend) ==
  {[kind |-> "none", staged |-> pend], [kind |-> "commit", staged |-> pend]}
  \cup {[kind |-> "add", staged |-> s] : s \in (SUBSET pend) \ {pend}}

\* What can raise inside _create_backup_branch besides its own checks.
RotateOutcomes == {"none", "create_head", "checkout_new", "checkout_back"}

\* A variant of pending_after_commit: the set is cleared in any case.
pending_after_commit_cleared(pend, outcome) == {}

\* ---------------------------------------- CursorChangeHandler._create_commit
\* self.pending_changes after _create_commit: cleared after index.commit
\* returned, untouched when anything raised.
pending_after_commit(pend, outcome) ==
  IF outcome.kind = "none" THEN {} ELSE pend

\* Returns [ok, pending, repo]: ok when nothing raised.
create_commit(pend, r, t, outcome, order) ==
  IF outcome.kind = "none"
    THEN [ ok |-> TRUE,
           pending |-> pending_after_commit(pend, outcome),
           repo |-> [r EXCEPT
             !.last_commit = [files |-> order, paths |-> r.index \cup pend],
             !.heads = [@ EXCEPT ![r.active_branch] = commit_at(t)],
             !.index = {}] ]
    ELSE [ ok |-> FALSE,
           pending |-> pending_after_commit(pend, outcome),
           repo |-> [r EXCEPT !.index = @ \cup outcome.staged] ]

\* ------------------------------ CursorChangeHandler._cleanup_backup_branches
\* The order of self.repo.heads: by name.
name_before(a, b) ==
  IF a.prefix = b.prefix THEN a.stamp < b.stamp ELSE a.prefix = "cursor-backup"

RECURSIVE in_name_order(_)
in_name_order(S) ==
  IF S = {} THEN << >>
  ELSE LET first == CHOOSE a \in S : \A b \in S \ {a} : name_before(a, b)
       IN << first >> \o in_name_order(S \ {first})

\* branch.name.startswith(self.config['backup_branch_prefix'])
is_backup(name, cfg) == name.prefix = cfg.backup_branch_prefix

\* key=lambda x: x.commit.committed_datetime
sort_key(r, name) == r.heads[name].committed_datetime

\* A variant of insert_at: x goes in front of the elements of equal key.
insert_at_before_equal(rest, x, r) ==
  Cardinality({i \in 1..Len(rest) : sort_key(r, rest[i]) < sort_key(r, x)})

\* Where sorted() puts x among the sorted elements before it: behind every
\* element whose key is not greater (the sort is stable).
insert_at(rest, x, r) ==
  Cardinality({i \in 1..Len(rest) : sort_key(r, rest[i]) <= sort_key(r, x)})

\* sorted(list, key=...)
RECURSIVE sorted(_, _)
sorted(list, r) ==
  IF list = << >> THEN << >>
  ELSE LET rest == sorted(SubSeq(list, 1, Len(list) - 1), r)
           x == list[Len(list)]
           k == insert_at(rest, x, r)
       IN SubSeq(rest, 1, k) \o << x >> \o SubSeq(rest, k + 1, Len(rest))

backup_branches(r, cfg) ==
  sorted(SelectSeq(in_name_order(DOMAIN r.heads), LAMBDA b : is_backup(b, cfg)), r)

\* while len(backup_branches) > self.config["max_backup_branches"]
cleanup_continues(list, cfg) == Len(list) > cfg.max_backup_branches

\* A variant of cleanup_loop: an if in place of the while.
cleanup_once(list, r, cfg) ==
  IF ~cleanup_continues(list, cfg) THEN [raised |-> FALSE, repo |-> r]
  ELSE LET oldest_branch == Head(list) IN
    IF oldest_branch = r.active_branch THEN [raised |-> TRUE, repo |-> r]
    ELSE [raised |-> FALSE,
          repo |-> [r EXCEPT !.heads = [b \in DOMAIN @ \ {oldest_branch} |-> @[b]]]]

\* The while loop.  delete_head runs git branch -D, which refuses the branch
\* that is checked out: the exception leaves the loop and the function.
\* Returns [raised, repo].
RECURSIVE cleanup_loop(_, _, _)
cleanup_loop(list, r, cfg) ==
  IF ~cleanup_continues(list, cfg) THEN [raised |-> FALSE, repo |-> r]
  ELSE LET oldest_branch == Head(list) IN
    IF oldest_branch = r.active_branch THEN [raised |-> TRUE, repo |-> r]
    ELSE cleanup_loop(Tail(list),
           [r EXCEPT !.heads = [b \in DOMAIN @ \ {oldest_branch} |-> @[b]]], cfg)

cleanup_backup_branches(r, cfg) == cleanup_loop(backup_branches(r, cfg), r, cfg)

\* ------------------------------------ CursorChangeHandler._create_backup_branch
\* self.repo.create_head(branch_name), force=False: GitPython raises OSError
\* when the reference exists and points elsewhere, and otherwise (re)writes it
\* to the commit of HEAD.
create_head_raises(r, branch_name) ==
  branch_name \in DOMAIN r.heads /\ r.heads[branch_name] # tip(r)

create_head(r, branch_name) ==
  [r EXCEPT !.heads = [b \in DOMAIN @ \cup {branch_name} |->
                         IF b = branch_name THEN tip(r) ELSE @[b]]]

\* The branch checked out when _create_backup_branch returns, given what raised.
checked_out_after(current, new_branch, outcome) ==
  IF outcome = "checkout_back" THEN new_branch ELSE current

\* A variant of create_backup_branch: the cleanup runs in a finally clause,
\* also after a checkout raised.
create_backup_branch_finally(r, cfg, local_now, outcome) ==
  LET branch_name == branch(cfg.backup_branch_prefix, local_now)
      current == r.active_branch
      r1 == create_head(r, branch_name)
      r2 == [r1 EXCEPT !.active_branch =
               checked_out_after(current, branch_name, outcome)]
      c1 == cleanup_backup_branches(r1, cfg)
      c == cleanup_backup_branches(r2, cfg)
      fresh == branch_name \notin DOMAIN r.heads
  IN
    IF outcome = "create_head" \/ create_head_raises(r, branch_name)
      THEN [ok |-> FALSE, repo |-> r, name |-> branch_name,
            created |-> FALSE, cleaned |-> FALSE, raised |-> "create_head"]
    ELSE IF outcome = "checkout_new"
      THEN [ok |-> FALSE, repo |-> c1.repo, name |-> branch_name,
            created |-> fresh, cleaned |-> TRUE, raised |-> "checkout"]
    ELSE IF outcome = "checkout_back"
      THEN [ok |-> FALSE, repo |-> c.repo, name |-> branch_name,
            created |-> fresh, cleaned |-> TRUE, raised |-> "checkout"]
    ELSE [ok |-> ~c.raised, repo |-> c.repo, name |-> branch_name,
          created |-> fresh, cleaned |-> TRUE,
          raised |-> IF c.raised THEN "delete_head" ELSE "none"]

\* Returns [ok, repo, name, created, cleaned, raised]: ok when nothing raised,
\* created when a reference that did not exist was made, cleaned when
\* _cleanup_backup_branches was called, raised the step that raised.
create_backup_branch(r, cfg, local_now, outcome) ==
  LET branch_name == branch(cfg.backup_branch_prefix, local_now)
      current == r.active_branch
      r1 == create_head(r, branch_name)
      r2 == [r1 EXCEPT !.active_branch =
               checked_out_after(current, branch_name, outcome)]
      c == cleanup_backup_branches(r2, cfg)
      fresh == branch_name \notin DOMAIN r.heads
  IN
    IF outcome = "create_head" \/ create_head_raises(r, branch_name)
      THEN [ok |-> FALSE, repo |-> r, name |-> branch_name,
            created |-> FALSE, cleaned |-> FALSE, raised |-> "create_head"]
    ELSE IF outcome = "checkout_new"
      THEN [ok |-> FALSE, repo |-> r1, name |-> branch_name,
            created |-> fresh, cleaned |-> FALSE, raised |-> "checkout"]
    ELSE IF outcome = "checkout_back"
      THEN [ok |-> FALSE, repo |-> r2, name |-> branch_name,
            created |-> fresh, cleaned |-> FALSE, raised |-> "checkout"]
    ELSE [ok |-> ~c.raised, repo |-> c.repo, name |-> branch_name,
          created |-> fresh, cleaned |-> TRUE,
          raised |-> IF c.raised THEN "delete_head" ELSE "none"]

\* --------------------------------------------- CursorChangeHandler.__init__
no_event == [src_path |-> "", is_directory |-> FALSE]

\* A variant of Dispatchers: the emitter thread calls the handler as well.
Dispatchers_with_emitter == {"observer", "emitter"}

\* The threads that call on_modified: the one thread of the one Observer that
\* main makes and starts; it takes the events off the queue one at a time.
Dispatchers == {"observer"}

no_rotation == [time |-> -1, name |-> main_branch, ok |-> FALSE,
                created |-> FALSE, cleaned |-> FALSE, raised |-> "none"]

\* A repository with one commit on its one branch, and a handler just made.
Init ==
  /\ now = 0
  /\ ticks = 0
  /\ faults = 0
  /\ utc_offset \in DstShifts
  /\ config \in Configs
  /\ last_commit_time = now
  /\ last_backup_time = now
  /\ pending_changes = {}
  /\ index = {}
  /\ heads = [b \in {main_branch} |-> commit_at(0)]
  /\ active_branch = main_branch
  /\ last_commit = [files |-> << >>, paths |-> {}]
  /\ event = no_event
  /\ recorded = {}
  /\ attempts = << >>
  /\ rotation = no_rotation
  /\ created = << >>
  /\ rotations_clean = TRUE
  /\ cleanups = 0
  /\ observer = "running"
  /\ event_queue = << >>
  /\ dispatching = [d \in Dispatchers |-> no_event]

\* ------------------------------------------- CursorChangeHandler._try_commit
last_two(s) == IF Len(s) > 2 THEN SubSeq(s, Len(s) - 1, Len(s)) ELSE s

\* Variants of should_flush: without the cooldown, and with a strict comparison.
should_flush_any_time(current_time, last_time, cfg, pend) ==
  current_time - last_time >= 0 /\ pend # {}

should_flush_strict(current_time, last_time, cfg, pend) ==
  current_time - last_time > cfg.commit_cooldown /\ pend # {}

\* current_time - self.last_commit_time >= commit_cooldown and self.pending_changes
should_flush(current_time, last_time, cfg, pend) ==
  current_time - last_time >= cfg.commit_cooldown /\ pend # {}

\* create_backup_branches and current_time - self.last_backup_time >= 3600
should_backup(current_time, last_time, cfg) ==
  cfg.create_backup_branches /\ current_time - last_time >= backup_interval

\* A variant of commit_time_after: the time advances on success only.
commit_time_after_success(current_time, last_time, ok) ==
  IF ok THEN current_time ELSE last_time

\* self.last_commit_time = current_time, whether _create_commit raised inside or not.
commit_time_after(current_time, last_time, ok) == current_time

\* A variant of backup_time_after: the time advances on success only.
backup_time_after_success(current_time, last_time, ok) ==
  IF ok THEN current_time ELSE last_time

\* self.last_backup_time = current_time, likewise.
backup_time_after(current_time, last_time, ok) == current_time

\* A variant of rotation_base: the rotation runs ahead of the commit.
rotation_base_before_commit(before, after) == before

\* The repository _create_backup_branch works on: _create_commit has returned.
rotation_base(before, after) == after

\* The inputs of one call of _try_commit: what the commit and the rotation
\* meet, and the order in which the pending set is iterated.  Only what the
\* call uses is drawn: nothing without a flush, no rotation outcome without a
\* rotation, no order without a commit.
no_outcome == [kind |-> "unused", staged |-> {}]

TryInputs(pend) ==
  IF ~should_flush(now, last_commit_time, config, pend)
    THEN {[commit |-> no_outcome, order |-> << >>, rotate |-> "unused"]}
    ELSE {[commit |-> c, order |-> o, rotate |-> r] :
            c \in CommitOutcomes(pend),
            o \in Orderings(pend),
            r \in IF should_backup(now, last_backup_time, config)
                    THEN RotateOutcomes ELSE {"unused"}}

\* How many of the exceptions of an input are the environment's.
fault_count(in) ==
  (IF in.commit.kind \in {"add", "commit"} THEN 1 ELSE 0)
  + (IF in.rotate \in RotateOutcomes \ {"none"} THEN 1 ELSE 0)

\* _try_commit with self.pending_changes = pend, where the commit and the
\* rotation meet the outcomes given.
try_commit(pend, commit_outcome, order, rotate_outcome) ==
  LET current_time == now IN
  IF should_flush(current_time, last_commit_time, config, pend)
    THEN
      LET c == create_commit(pend, Repo, current_time, commit_outcome, order)
          rotate == should_backup(current_time, last_backup_time, config)
          b == create_backup_branch(rotation_base(Repo, c.repo), config,
                 local_time(current_time, utc_offset), rotate_outcome)
          r == IF rotate THEN b.repo ELSE c.repo
      IN /\ pending_changes' = c.pending
         /\ recorded' = IF c.ok
              THEN (recorded \cup pend) \ Range(c.repo.last_commit.files)
              ELSE recorded \cup pend
         /\ last_commit_time' = commit_time_after(current_time, last_commit_time, c.ok)
         /\ attempts' = last_two(Append(attempts, [time |-> current_time, ok |-> c.ok]))
         /\ last_backup_time' = IF rotate
              THEN backup_time_after(current_time, last_backup_time, b.ok)
              ELSE last_backup_time
         /\ rotation' = IF rotate
              THEN [time |-> current_time, name |-> b.name, ok |-> b.ok,
                    created |-> b.created, cleaned |-> b.cleaned,
                    raised |-> b.raised]
              ELSE rotation
         /\ created' = IF rotate /\ b.created
              THEN Append(created, [name |-> b.name, commit |-> tip(c.repo)])
              ELSE created
         /\ rotations_clean' = (rotations_clean /\ (rotate => b.ok /\ b.created))
         /\ cleanups' = cleanups
         /\ index' = r.index
         /\ heads' = r.heads
         /\ active_branch' = r.active_branch
         /\ last_commit' = r.last_commit
    ELSE
      /\ pending_changes' = pend
      /\ recorded' = recorded \cup pend
      /\ UNCHANGED << last_commit_time, last_backup_time, attempts, rotation,
                      created, rotations_clean, cleanups, repo >>

\* ------------------------------------------- CursorChangeHandler.on_modified
\* A variant of on_modified: _try_commit is called for every event.
on_modified_always_tries(e, budget) ==
  /\ UNCHANGED << now, ticks, utc_offset, config >>
  /\ LET relative_path == relpath(e.src_path, repo_path)
         pend == IF e.is_directory \/ ~tracks[config][e.src_path]
                   THEN pending_changes
                   ELSE pending_changes \cup {relative_path}
     IN \E in \in TryInputs(pend) :
          /\ fault_count(in) <= budget
          /\ faults' = faults + fault_count(in)
          /\ try_commit(pend, in.commit, in.order, in.rotate)

\* One call of on_modified(event), in which at most `budget` git operations
\* raise for reasons of the environment.
on_modified(e, budget) ==
  /\ UNCHANGED << now, ticks, utc_offset, config >>
  /\ IF e.is_directory \/ ~tracks[config][e.src_path]
       THEN UNCHANGED << faults, handler, repo, history >>
       ELSE LET relative_path == relpath(e.src_path, repo_path)
                pend == pending_changes \cup {relative_path}
            IN \E in \in TryInputs(pend) :
                 /\ fault_count(in) <= budget
                 /\ faults' = faults + fault_count(in)
                 /\ try_commit(pend, in.commit, in.order, in.rotate)

\* The watcher delivers an event.
Handle ==
  \E e \in EventInputs :
    on_modified(e, MaxFaults - faults) /\ UNCHANGED << event, watcher >>

\* The watcher delivers an event, which is kept for inspection; no git
\* operation raises.
Observe ==
  \E e \in EventInputs :
    on_modified(e, 0) /\ event' = e /\ UNCHANGED watcher

\* ------------------------------------------------------------ the environment
\* Time passes (main's loop sleeps; the watcher waits for the next event).
Tick ==
  /\ ticks < MaxTicks
  /\ \E d \in TickSteps : now' = now + d
  /\ ticks' = ticks + 1
  /\ UNCHANGED << faults, utc_offset, config, handler, repo, event, history,
                  watcher >>

\* Summer time ends: datetime.now() falls back, time.time() does not.
DstEnds ==
  /\ utc_offset > 0
  /\ \E s \in DstShifts : utc_offset' = utc_offset - s
  /\ UNCHANGED << now, ticks, faults, config, handler, repo, event, history,
                  watcher >>

\* The handler, with git operations that can raise.
Next ==
  \/ Handle
  \/ Tick

Spec == Init /\ [][Next]_vars

\* The handler with every event it is given on record.
EventNext ==
  \/ Observe
  \/ Tick

EventSpec == Init /\ [][EventNext]_vars

\* The handler in the night in which summer time ends.
DstNext ==
  \/ Handle
  \/ Tick
  \/ DstEnds

DstSpec == Init /\ [][DstNext]_vars

\* --------------------------------------------------- main and the Observer
\* The events the emitter thread queues in the runs that follow the threads.
WatchInputs ==
  {e \in EventInputs :
     e.src_path \in {"/repo/src/a.py", "/repo/build/output.js", "/repo/src/build/o.js"}}

\* The emitter thread queues an event, whatever the handler is doing.
Emit ==
  /\ observer = "running"
  /\ Len(event_queue) < MaxQueue
  /\ \E e \in WatchInputs : event_queue' = Append(event_queue, e)
  /\ UNCHANGED << now, ticks, faults, utc_offset, config, handler, repo, event,
                  history, observer, dispatching >>

\* A dispatching thread that is not in a call takes the next event off the
\* queue and calls on_modified with it.
Begin ==
  /\ observer = "running"
  /\ event_queue # << >>
  /\ \E d \in Dispatchers :
       /\ dispatching[d] = no_event
       /\ dispatching' = [dispatching EXCEPT ![d] = Head(event_queue)]
  /\ event_queue' = Tail(event_queue)
  /\ UNCHANGED << now, ticks, faults, utc_offset, config, handler, repo, event,
                  history, observer >>

\* A call of on_modified does its work and returns.
End ==
  \E d \in Dispatchers :
    /\ dispatching[d] # no_event
    /\ on_modified(dispatching[d], 0)
    /\ event' = dispatching[d]
    /\ dispatching' = [dispatching EXCEPT ![d] = no_event]
    /\ UNCHANGED << observer, event_queue >>

\* KeyboardInterrupt in main: observer.stop() and observer.join(); a call
\* that runs is finished, no other is begun, then the process exits.
Interrupt ==
  /\ observer = "running"
  /\ observer' = "stopped"
  /\ UNCHANGED << now, ticks, faults, utc_offset, config, handler, repo, event,
                  history, event_queue, dispatching >>

MainNext ==
  \/ Emit
  \/ Begin
  \/ End
  \/ Tick
  \/ Interrupt

MainSpec == Init /\ [][MainNext]_vars

\* ------------------------------------ _cleanup_backup_branches on its own
\* The repositories the cleanup can be given: main, any backup branches at any
\* commits, any of the branches checked out.
CleanupHeads ==
  UNION { [ {main_branch} \cup {branch("cursor-backup", s) : s \in S}
              -> {commit_at(t) : t \in CleanupTimes} ] :
          S \in SUBSET CleanupStamps }

CleanupInit ==
  /\ now = 0
  /\ ticks = 0
  /\ faults = 0
  /\ utc_offset \in DstShifts
  /\ config \in Configs
  /\ last_commit_time = now
  /\ last_backup_time = now
  /\ pending_changes = {}
  /\ index = {}
  /\ heads \in CleanupHeads
  /\ active_branch \in DOMAIN heads
  /\ last_commit = [files |-> << >>, paths |-> {}]
  /\ event = no_event
  /\ recorded = {}
  /\ attempts = << >>
  /\ rotation = no_rotation
  /\ created = [i \in 1..Len(backup_branches(Repo, config)) |->
                  [name |-> backup_branches(Repo, config)[i],
                   commit |-> heads[backup_branches(Repo, config)[i]]]]
  /\ rotations_clean = TRUE
  /\ cleanups = 0
  /\ observer = "running"
  /\ event_queue = << >>
  /\ dispatching = [d \in Dispatchers |-> no_event]

\* One call of self._cleanup_backup_branches(); what it raises is caught by
\* its caller.
Cleanup ==
  /\ cleanups < MaxCleanups
  /\ heads' = cleanup_backup_branches(Repo, config).repo.heads
  /\ cleanups' = cleanups + 1
  /\ UNCHANGED << now, ticks, faults, utc_offset, config, handler, index,
                  active_branch, last_commit, event, recorded, attempts,
                  rotation, created, rotations_clean, watcher >>

CleanupNext ==
  \/ Cleanup

CleanupSpec == CleanupInit /\ [][CleanupNext]_vars

\* ================================================================= properties
\* The paths on_modified can insert under the configuration in force.
TrackedPaths ==
  {relpath(e.src_path, repo_path) :
     e \in {x \in EventInputs : ~x.is_directory /\ tracks[config][x.src_path]}}

\* This step called _create_commit.
Attempted == attempts' # attempts

\* This step added a commit to the branch checked out.
Committed == heads'[active_branch'] # heads[active_branch]

\* The handler has made a commit; it is the commit of HEAD.
HasCommitted == last_commit.files # << >>

Last(s) == s[Len(s)]

\* ------------------------------------------------------------------------ C1
\* C1 as stated: once a commit is made, every path recorded less than
\* commit_cooldown after it (in the same window) is among the paths of that
\* commit, the one commit of the window, made at its end.
C1_AsStated ==
  (HasCommitted /\ now - tip(Repo).committed_datetime < config.commit_cooldown)
    => recorded \subseteq Range(last_commit.files)

\* C1, amended: a commit is made only while an event is handled at which
\* commit_cooldown has elapsed since last_commit_time, so at least
\* commit_cooldown after the commit before it (at most one per shorter window);
\* it lists each path recorded since the last successful commit, the
\* triggering one included, exactly once, and nothing else, and leaves nothing
\* pending.
C1_CommitAtFirstEligibleEvent ==
  [][Committed =>
       /\ now - last_commit_time >= config.commit_cooldown
       /\ HasCommitted =>
            now - tip(Repo).committed_datetime >= config.commit_cooldown
       /\ \E p \in TrackedPaths :
            Range(last_commit'.files) = pending_changes \cup {p}
       /\ Len(last_commit'.files) = Cardinality(Range(last_commit'.files))
       /\ Range(last_commit'.files) \subseteq last_commit'.paths
       /\ pending_changes' = {}]_vars

\* A commit of two paths was made, and a path changed again since, within
\* commit_cooldown of the commit, waits in pending_changes.
C1_Witness ==
  /\ Len(last_commit.files) = 2
  /\ now > tip(Repo).committed_datetime
  /\ now - tip(Repo).committed_datetime < config.commit_cooldown
  /\ pending_changes # {}

\* ------------------------------------------------------------------------ C2
\* The event handled last is one should_track_file accepts.
EventTracked ==
  /\ event \in EventInputs
  /\ ~event.is_directory
  /\ tracks[config][event.src_path]

\* C2: a flush evaluation (a call of _try_commit, made for every tracked
\* event) attempts a commit if and only if the pending set is non-empty and
\* now - last_commit_time >= commit_cooldown; nothing else attempts one.
C2_FlushIffCooldownAndPending ==
  [][LET evaluated == now' = now /\ EventTracked'
         pend == pending_changes \cup {relpath(event'.src_path, repo_path)}
     IN /\ evaluated =>
             (Attempted <=> (pend # {}
                             /\ now - last_commit_time >= config.commit_cooldown))
        /\ ~evaluated => ~Attempted]_vars

\* An evaluation attempted a commit, and a later one, of a tracked event
\* inside the cooldown, did not.
C2_Witness ==
  /\ EventTracked
  /\ attempts # << >>
  /\ now > Last(attempts).time
  /\ now - last_commit_time < config.commit_cooldown
  /\ pending_changes # {}

\* ------------------------------------------------------------------------ C3
\* C3: any two consecutive calls of _create_commit are at least
\* commit_cooldown apart, and the first is at least commit_cooldown after the
\* construction of the handler (time 0), whether the calls succeeded or not.
C3_AttemptsCooldownApart ==
  /\ attempts # << >> => attempts[1].time >= config.commit_cooldown
  /\ Len(attempts) = 2 =>
       attempts[2].time - attempts[1].time >= config.commit_cooldown

\* Two attempts were made, the first of which failed.
C3_Witness ==
  /\ Len(attempts) = 2
  /\ ~attempts[1].ok

\* ------------------------------------------------------------------------ C4
\* The backup branches of the repository.
BackupNames == {b \in DOMAIN heads : is_backup(b, config)}

Min(a, b) == IF a < b THEN a ELSE b

\* C4: with backups enabled, after rotations each of which made its branch
\* and raised nothing, the backup branches are exactly the
\* min(max_backup_branches, rotations) made last, although the cleanup orders
\* them by the time of the commit they point to and several can point to one
\* commit.
C4_KeepsMostRecentlyCreated ==
  (config.create_backup_branches /\ rotations_clean) =>
    LET k == Len(created)
        n == Min(config.max_backup_branches, k)
    IN /\ BackupNames = {created[i].name : i \in (k - n + 1)..k}
       /\ Cardinality(BackupNames) = n

\* Three rotations ran, more than max_backup_branches, the first two of the
\* same commit; the first branch is gone and the other two remain.
C4_Witness ==
  /\ rotations_clean
  /\ Len(created) = 3
  /\ Len(created) > config.max_backup_branches
  /\ created[1].commit = created[2].commit
  /\ created[1].name \notin BackupNames
  /\ created[2].name \in BackupNames

\* ------------------------------------------------------------------------ C5
\* C5: a call of _cleanup_backup_branches that follows another, with nothing
\* in between, deletes nothing: the branches after two calls are those after
\* one.
C5_CleanupIdempotent ==
  [][(cleanups >= 1 /\ cleanups' = cleanups + 1) => heads' = heads]_vars

\* The cleanup ran twice on a repository that had four backup branches: the
\* first call deleted two of them and the second found max_backup_branches.
C5_Witness ==
  /\ cleanups = 2
  /\ Len(created) = 4
  /\ Cardinality(BackupNames) = config.max_backup_branches
  /\ Cardinality(BackupNames) < Len(created)

\* ------------------------------------------------------------------------ C6
\* C6 as stated: after any call of _create_backup_branch, whichever of its
\* steps raised, the branch checked out is the one checked out before.
C6_AsStated ==
  [][rotation' # rotation => active_branch' = active_branch]_vars

\* ------------------------------------------------------------------------ C7
\* C7: when _create_commit fails, the handler carries on (_try_commit goes on
\* to set last_commit_time), HEAD's commit and the last commit made are what
\* they were, and pending_changes is what it was when the attempt began: the
\* set before the event with the event's path.
C7_FailedCommitKeepsPending ==
  [][(Attempted /\ ~Last(attempts').ok) =>
       /\ heads'[active_branch'] = heads[active_branch]
       /\ \A b \in DOMAIN heads \cap DOMAIN heads' : heads'[b] = heads[b]
       /\ last_commit' = last_commit
       /\ \E p \in TrackedPaths : pending_changes' = pending_changes \cup {p}
       /\ last_commit_time' = now]_vars

\* A commit attempt failed with two paths pending, some of them staged; both
\* are still pending.
C7_Witness ==
  /\ attempts # << >>
  /\ ~Last(attempts).ok
  /\ Last(attempts).time = now
  /\ Cardinality(pending_changes) = 2
  /\ index # {}

\* ------------------------------------------------------------------------ C8
\* C8 as stated: when the name of the new backup branch is that of an existing
\* branch, the call fails at create_head and reports it, and the branches are
\* as they were.
C8_AsStated ==
  [][(rotation' # rotation /\ rotation'.name \in DOMAIN heads) =>
       /\ ~rotation'.ok
       /\ DOMAIN heads' = DOMAIN heads
       /\ heads'[rotation'.name] = heads[rotation'.name]]_vars

\* ------------------------------------------------------------------------ C9
\* The events should_track_file must refuse, read off the patterns.
dropped ==
  [cfg \in Configs |->
     {e \in EventInputs :
        \/ e.is_directory
        \/ matches_any(relpath(e.src_path, repo_path), cfg.ignore_patterns)
        \/ ~matches_any(relpath(e.src_path, repo_path), cfg.file_patterns)}]

\* C9: an event for a directory, for a path matching an ignore pattern
\* (whether or not it matches a file pattern) or for a path matching no file
\* pattern changes nothing: its path is not inserted, no flush is attempted,
\* the handler and the repository are as before.
C9_UntrackedEventsChangeNothing ==
  [][(now' = now /\ event' \in dropped[config]) =>
       /\ UNCHANGED << handler, repo >>
       /\ ~Attempted
       /\ relpath(event'.src_path, repo_path) \notin pending_changes']_vars

\* The event handled last is for src/build/o.js, which matches the file
\* pattern **/*.js and the ignore pattern **/build/**; it came with a change
\* pending and the cooldown over, and nothing was flushed.
C9_Witness ==
  /\ event.src_path = "/repo/src/build/o.js"
  /\ event \in dropped[config]
  /\ pending_changes # {}
  /\ now - last_commit_time >= config.commit_cooldown

\* ----------------------------------------------------------------------- C10
\* C10 as stated: under the default patterns build/output.js is never
\* tracked: it is never pending and never in a commit.
C10_AsStated ==
  /\ "build/output.js" \notin pending_changes
  /\ "build/output.js" \notin Range(last_commit.files)

\* ----------------------------------------------------------------------- C11
\* C11 as stated: in every flush evaluation (every call of _try_commit, one
\* per tracked event), whether it flushed or not, _create_backup_branch is
\* called if and only if create_backup_branches is set and
\* now - last_backup_time >= 3600; with create_backup_branches unset the
\* repository never has a backup branch.
C11_AsStated ==
  /\ [][(now' = now /\ EventTracked') =>
          (rotation' # rotation <=>
             (config.create_backup_branches
              /\ now - last_backup_time >= backup_interval))]_vars
  /\ [](~config.create_backup_branches => BackupNames = {})

\* ----------------------------------------------------------------------- C12
\* C12: a call of _create_backup_branch at time now is followed by
\* last_backup_time = now whether the call raised inside or not, so the call
\* is at least the backup interval after the call before it and after the
\* construction of the handler.
C12_BackupTimeAdvancedOnFailure ==
  [][rotation' # rotation =>
       /\ rotation'.time = now
       /\ last_backup_time' = now
       /\ now - last_backup_time >= backup_interval
       /\ rotation # no_rotation => now - rotation.time >= backup_interval]_vars

\* A rotation failed without making its branch, and a later rotation, the
\* last, made the first backup branch.
C12_Witness ==
  /\ ~rotations_clean
  /\ rotation.ok
  /\ rotation.created
  /\ Len(created) = 1
  /\ last_backup_time = rotation.time

\* ----------------------------------------------------------------------- C13
\* C13: when one call of _try_commit both commits and makes a backup branch,
\* the branch points to the commit made in that call, the new tip of the
\* branch checked out, not to the tip from before the commit.
C13_BackupPointsToNewCommit ==
  [][(Attempted /\ Last(attempts').ok /\ rotation' # rotation /\ rotation'.created) =>
       /\ rotation'.name \in DOMAIN heads'
       /\ heads'[rotation'.name] = commit_at(now)
       /\ heads'[rotation'.name] = heads'[active_branch]
       /\ heads'[rotation'.name] # heads[active_branch]]_vars

\* The last call of _try_commit committed and made a backup branch, which
\* points to that commit.
C13_Witness ==
  /\ rotation.time = now
  /\ rotation.created
  /\ attempts # << >>
  /\ Last(attempts).time = now
  /\ Last(attempts).ok
  /\ rotation.name \in DOMAIN heads
  /\ heads[rotation.name] = commit_at(now)

\* ----------------------------------------------------------------------- C14
\* C14: a call of _create_commit that fails at time now still leaves
\* last_commit_time = now and the changes pending; the next call of
\* _create_commit, made for a later event at least commit_cooldown after it,
\* takes the changes of the failed one up again.
C14_FailedFlushAdvancesCommitTime ==
  [][/\ (Attempted /\ ~Last(attempts').ok) =>
          /\ last_commit_time' = now
          /\ pending_changes' # {}
          /\ pending_changes \subseteq pending_changes'
     /\ (Attempted /\ attempts # << >> /\ ~Last(attempts).ok) =>
          /\ now - Last(attempts).time >= config.commit_cooldown
          /\ last_commit_time = Last(attempts).time
          /\ pending_changes # {}
          /\ Last(attempts').ok =>
               pending_changes \subseteq Range(last_commit'.files)]_vars

\* A commit failed and the next attempt, a cooldown later, committed its
\* changes.
C14_Witness ==
  /\ Len(attempts) = 2
  /\ ~attempts[1].ok
  /\ attempts[2].ok
  /\ attempts[2].time = now
  /\ pending_changes = {}
  /\ index = {}

\* ----------------------------------------------------------------------- C15
\* C15: when create_head or one of the two checkouts raises in
\* _create_backup_branch, _cleanup_backup_branches is not called in that
\* call, every backup branch there was is still there, and the exception is
\* caught: _try_commit goes on to set last_backup_time.
C15_RotationErrorSkipsCleanup ==
  [][(rotation' # rotation /\ rotation'.raised \in {"create_head", "checkout"}) =>
       /\ ~rotation'.ok
       /\ ~rotation'.cleaned
       /\ BackupNames \subseteq DOMAIN heads'
       /\ last_backup_time' = now]_vars

\* The last rotation made its branch and then failed at a checkout: there
\* are more backup branches than max_backup_branches, none cleaned up.
C15_Witness ==
  /\ rotation.raised = "checkout"
  /\ rotation.created
  /\ ~rotation.cleaned
  /\ Cardinality(BackupNames) > config.max_backup_branches

\* ----------------------------------------------------------------------- C16
\* C16 as stated: in one run of _cleanup_backup_branches, deletion is
\* attempted for every branch in excess of max_backup_branches, also after
\* the deletion of an older one failed: every excess branch that git can
\* delete (any but the one checked out) is gone after the run.
C16_AsStated ==
  [][cleanups' = cleanups + 1 =>
       LET list == backup_branches(Repo, config) IN
         \A i \in 1..(Len(list) - config.max_backup_branches) :
           list[i] # active_branch => list[i] \notin DOMAIN heads']_vars

\* ----------------------------------------------------------------------- C17
\* C17 as stated: every backup branch that exists points to the commit it
\* was created at, whatever rotations failed and whatever commits were made
\* since.
C17_AsStated ==
  \A i \in 1..Len(created) :
    created[i].name \in DOMAIN heads =>
      heads[created[i].name] = created[i].commit

\* ----------------------------------------------------------------------- C19
\* C19: every path on_modified inserted is pending or was listed in a
\* successful commit made after its last insertion; pending_changes loses
\* paths only in a call of _create_commit that succeeds, which empties it and
\* lists exactly the paths pending when it was made.
C19_NoChangeDropped ==
  /\ [](recorded \subseteq pending_changes)
  /\ [][(pending_changes \ pending_changes' # {}) =>
          /\ Attempted
          /\ Last(attempts').ok
          /\ pending_changes' = {}
          /\ pending_changes \subseteq Range(last_commit'.files)
          /\ Range(last_commit'.files) \ pending_changes \subseteq TrackedPaths
          /\ Cardinality(Range(last_commit'.files) \ pending_changes) <= 1]_vars

\* After a successful commit two paths were inserted and a commit of them
\* failed: both are pending.
C19_Witness ==
  /\ HasCommitted
  /\ attempts # << >>
  /\ ~Last(attempts).ok
  /\ Cardinality(recorded) = 2
  /\ recorded = pending_changes

\* ----------------------------------------------------------------------- C18
\* The calls of on_modified that have begun and not returned.
InFlight == {d \in Dispatchers : dispatching[d] # no_event}

C20_NoTimerFlush ==
  [][/\ ~(InFlight' # InFlight /\ InFlight' = {} /\ EventTracked') =>
          UNCHANGED << handler, repo >>
     /\ (now' # now \/ observer' # observer) =>
          UNCHANGED << handler, repo, attempts, rotation >>
     /\ (observer = "stopped" /\ InFlight = {}) =>
          UNCHANGED << handler, repo, attempts, rotation >>]_vars

\* The process was interrupted with a path pending and the cooldown long
\* over; the path was not committed.
C20_Witness ==
  /\ observer = "stopped"
  /\ InFlight = {}
  /\ pending_changes # {}
  /\ now - last_commit_time >= 2 * config.commit_cooldown

====
